---- MODULE Spec2Model ----
(***************************************************************************)
(* locomapper: a landmark store (identifier -> tuple of landmark records,  *)
(* JSON save/load) and the localisation engines built on it, which average *)
(* the stored records of an identifier.                                    *)
(*                                                                         *)
(* Numbers.  Coordinates are Python floats.  They are modelled as IEEE     *)
(* binary floating point scaled down: a value is an integer count of the   *)
(* smallest subnormal, a significand has MantissaBits bits, and every      *)
(* arithmetic result is rounded to the nearest representable value, ties   *)
(* to even.  The exponent is not bounded above (the inputs stay far from   *)
(* overflow).  Uncertainties are never computed with; they are written in  *)
(* millionths (1e-6 -> 1, 0.1 -> 100000, 10.0 -> 10000000).                *)
(***************************************************************************)
EXTENDS Integers, Sequences, FiniteSets, TLC

\* Bits of a float's significand (53 for a Python float).
MantissaBits == 3
\* Records put into the store in the store specification.
MaxStored == 2
\* Records added through the engine in the engine specification.
MaxAdded == 3
\* Length of the wifi_tuple handed to localise_multiple.
MaxNetworks == 2

VARIABLES
    data_model,   \* LandmarkStore.data_model: the declared record class
    storage,      \* LandmarkStore._storage: identifier -> tuple of records
    file,         \* content of the one path save and load are called with
    op,           \* the last call: [name, args]
    ret,          \* what the last call returned or raised
    before,       \* history: _storage when the last call started
    puts,         \* history: the records put since construction, in order
    pristine,     \* history: no load has succeeded since construction
    saved         \* history: <<[dm, storage]>> of the store that wrote the
                  \* file, <<>> while the program has not saved

vars == <<data_model, storage, file, op, ret, before, puts, pristine, saved>>

----------------------------------------------------------------------------
(* Python floats *)

Abs(x) == IF x < 0 THEN -x ELSE x

Max(x, y) == IF x < y THEN y ELSE x

RECURSIVE Pow2(_)
Pow2(n) == IF n = 0 THEN 1 ELSE 2 * Pow2(n - 1)

RECURSIVE BitLength(_)
BitLength(n) == IF n = 0 THEN 0 ELSE 1 + BitLength(n \div 2)

\* a / d (a >= 0, d > 0) rounded to the nearest integer, ties to even
RoundHalfEven(a, d) ==
    LET f == a \div d
        r == a % d
    IN  IF 2 * r < d THEN f
        ELSE IF 2 * r > d THEN f + 1
        ELSE IF f % 2 = 0 THEN f ELSE f + 1

\* the float nearest to the rational n / d (d > 0)
FloatRound(n, d) ==
    LET a == Abs(n)
        q == Pow2(Max(0, BitLength(a \div d) - MantissaBits))
        m == RoundHalfEven(a, d * q)
    IN  IF n < 0 THEN -(m * q) ELSE m * q

\* x + y on floats
FloatAdd(x, y) == FloatRound(x + y, 1)

\* x / n on floats, n a positive int (len of a tuple)
FloatDiv(x, n) == FloatRound(x, n)

----------------------------------------------------------------------------
(* data_models.py *)

GeodeticLandmark == "GeodeticLandmark"

CartesianLandmark == "CartesianLandmark"

DataModels == {GeodeticLandmark, CartesianLandmark}

GeodeticFields ==
    {"identifier", "latitude_deg", "longitude_deg", "altitude_m",
     "latitude_uncertainty_deg", "longitude_uncertainty_deg",
     "altitude_uncertainty_m"}

CartesianFields == {"identifier", "x_m", "y_m", "z_m", "uncertainty_m"}

Fields(dm) == IF dm = GeodeticLandmark THEN GeodeticFields ELSE CartesianFields

\* JSON values: a string or a number
JsonStr(s) == [t |-> "str", v |-> s]

JsonNum(n) == [t |-> "num", v |-> n]

\* the JSON type a field of the record classes takes: identifier: str, the
\* others: float
FieldType(f) == IF f = "identifier" THEN "str" ELSE "num"

\* data_model(**model_dict) succeeds: every declared field is present with a
\* value of its type.  The classes set no Config, so pydantic's default
\* applies to keys that are no field of the class: they are ignored.
Validates(dm, model_dict) ==
    \A f \in Fields(dm) :
        /\ f \in DOMAIN model_dict
        /\ model_dict[f].t = FieldType(f)

\* the record data_model(**model_dict) constructs
Parse(dm, model_dict) == [f \in Fields(dm) |-> model_dict[f].v]

\* model.dict() as json.dump writes it
ModelDict(model) ==
    [f \in DOMAIN model |->
        IF FieldType(f) = "str" THEN JsonStr(model[f]) ELSE JsonNum(model[f])]

----------------------------------------------------------------------------
(* landmark_store.py *)

\* LandmarkStore.__init__: self._storage = {}
EmptyStorage == [k \in {} |-> <<>>]

\* LandmarkStore.get: self._storage.get(identifier, ())
get(s, identifier) == IF identifier \in DOMAIN s THEN s[identifier] ELSE <<>>

\* put with the new record in front of the existing ones
put_prepend(s, datum) ==
    LET identifier == datum.identifier
    IN  IF identifier \in DOMAIN s
        THEN [storage |-> [s EXCEPT ![identifier] = <<datum>> \o @],
              flag    |-> TRUE]
        ELSE [storage |-> [k \in DOMAIN s \cup {identifier} |->
                              IF k = identifier THEN <<datum>> ELSE s[k]],
              flag    |-> FALSE]

\* put with found_data_flag set in the other branch
put_flag_swapped(s, datum) ==
    LET identifier == datum.identifier
    IN  IF identifier \in DOMAIN s
        THEN [storage |-> [s EXCEPT ![identifier] = Append(@, datum)],
              flag    |-> FALSE]
        ELSE [storage |-> [k \in DOMAIN s \cup {identifier} |->
                              IF k = identifier THEN <<datum>> ELSE s[k]],
              flag    |-> TRUE]

\* put that assigns (datum,) in both branches
put_overwrite(s, datum) ==
    LET identifier == datum.identifier
    IN  [storage |-> [k \in DOMAIN s \cup {identifier} |->
                         IF k = identifier THEN <<datum>> ELSE s[k]],
         flag    |-> identifier \in DOMAIN s]

\* LandmarkStore.put: the new _storage and the returned found_data_flag
put(s, datum) ==
    LET identifier == datum.identifier
    IN  IF identifier \in DOMAIN s
        THEN [storage |-> [s EXCEPT ![identifier] = Append(@, datum)],
              flag    |-> TRUE]
        ELSE [storage |-> [k \in DOMAIN s \cup {identifier} |->
                              IF k = identifier THEN <<datum>> ELSE s[k]],
              flag    |-> FALSE]

RECURSIVE CountRecords(_, _)
CountRecords(s, keys) ==
    IF keys = {} THEN 0
    ELSE LET k == CHOOSE k \in keys : TRUE
         IN  Len(s[k]) + CountRecords(s, keys \ {k})

\* __len__ counting the records instead of the identifiers
size_records(s) == CountRecords(s, DOMAIN s)

\* LandmarkStore.__len__
size(s) == Cardinality(DOMAIN s)

\* save writing only the first record of every identifier
save_first_only(s) ==
    [kind  |-> "object",
     value |-> [identifier \in DOMAIN s |->
                   [i \in 1..(IF Len(s[identifier]) = 0 THEN 0 ELSE 1) |->
                       ModelDict(s[identifier][i])]]]

\* LandmarkStore.save: serializable_data as json.dump writes it.  The keys are
\* str(identifier); an identifier is a str already (the record classes declare
\* identifier: str).
save(s) ==
    [kind  |-> "object",
     value |-> [identifier \in DOMAIN s |->
                   [i \in 1..Len(s[identifier]) |-> ModelDict(s[identifier][i])]]]

\* LandmarkStore.load, open and json.load: the exception raised, "" if none
ReadError(f) ==
    CASE f.kind = "missing"   -> "FileNotFoundError"
      [] f.kind = "malformed" -> "JSONDecodeError"
      [] f.kind = "array"     -> "AttributeError"
      [] OTHER                -> ""

\* LandmarkStore.load, the dict comprehension: every record of raw_data
\* validates
AllValidate(dm, raw_data) ==
    \A identifier \in DOMAIN raw_data :
        \A i \in 1..Len(raw_data[identifier]) :
            Validates(dm, raw_data[identifier][i])

\* LandmarkStore.load, the dict comprehension's value
Rebuild(dm, raw_data) ==
    [identifier \in DOMAIN raw_data |->
        [i \in 1..Len(raw_data[identifier]) |->
            Parse(dm, raw_data[identifier][i])]]

\* load that updates _storage with the file's keys instead of replacing it
load_merge(dm, s, f) ==
    IF ReadError(f) # ""
    THEN [storage |-> s, exc |-> ReadError(f), count |-> 0]
    ELSE IF ~AllValidate(dm, f.value)
    THEN [storage |-> s, exc |-> "ValidationError", count |-> 0]
    ELSE [storage |-> [k \in DOMAIN s \cup DOMAIN f.value |->
                          IF k \in DOMAIN f.value
                          THEN Rebuild(dm, f.value)[k] ELSE s[k]],
          exc |-> "",
          count |-> size(Rebuild(dm, f.value))]

\* load that empties _storage before it rebuilds it record by record
load_clear_first(dm, s, f) ==
    IF ReadError(f) # ""
    THEN [storage |-> s, exc |-> ReadError(f), count |-> 0]
    ELSE IF ~AllValidate(dm, f.value)
    THEN [storage |-> EmptyStorage, exc |-> "ValidationError", count |-> 0]
    ELSE [storage |-> Rebuild(dm, f.value), exc |-> "",
          count |-> size(Rebuild(dm, f.value))]

\* LandmarkStore.load: the new _storage, the exception raised ("" if none)
\* and the returned count.  The comprehension is evaluated before the
\* assignment to self._storage: an exception in it leaves _storage alone.
load(dm, s, f) ==
    IF ReadError(f) # ""
    THEN [storage |-> s, exc |-> ReadError(f), count |-> 0]
    ELSE IF ~AllValidate(dm, f.value)
    THEN [storage |-> s, exc |-> "ValidationError", count |-> 0]
    ELSE [storage |-> Rebuild(dm, f.value), exc |-> "",
          count |-> size(Rebuild(dm, f.value))]

----------------------------------------------------------------------------
(* Inputs *)

\* hash_wifi: md5(f"{ssid}{mac}").hexdigest(), a function of the concatenation
\* (md5 is taken to be injective on the strings used here)
hash_wifi(ssid, mac) == ssid \o mac

\* (ssid, mac) pairs a scan can return; the last is never given any data
Networks == {<<"a", "1">>, <<"b", "2">>, <<"c", "3">>}

QueryIdentifiers == {hash_wifi(n[1], n[2]) : n \in Networks}

\* a float whose neighbours are 8 apart: Big + 3 rounds to Big
Big == Pow2(MantissaBits + 2)

\* arguments of add_data: unc = <<>> when the caller leaves the uncertainties
\* to their defaults
AddDataArgs(dm) ==
    IF dm = GeodeticLandmark
    THEN {[identifier |-> "a1", pos |-> <<Big, 2, 0>>, unc |-> <<>>],
          [identifier |-> "a1", pos |-> <<3, 4, 6>>, unc |-> <<5, 7, 3000000>>],
          [identifier |-> "a1", pos |-> <<-Big, 0, 0>>, unc |-> <<>>],
          [identifier |-> "b2", pos |-> <<1, 4, 6>>, unc |-> <<5, 7, 3000000>>]}
    ELSE {[identifier |-> "a1", pos |-> <<Big, 2, 0>>, unc |-> <<>>],
          [identifier |-> "a1", pos |-> <<3, 4, 6>>, unc |-> <<250000>>],
          [identifier |-> "a1", pos |-> <<-Big, 0, 0>>, unc |-> <<>>],
          [identifier |-> "b2", pos |-> <<1, 4, 6>>, unc |-> <<250000>>]}

----------------------------------------------------------------------------
(* localisation.py *)

\* the uncertainties add_data takes when the caller gives none (millionths)
DefaultLatitudeUncertainty == 1
DefaultLongitudeUncertainty == 1
DefaultAltitudeUncertainty == 10000000
DefaultUncertainty == 100000

\* the uncertainties localise writes into its estimate (millionths)
EstimateLatitudeUncertainty == 1
EstimateLongitudeUncertainty == 1
EstimateAltitudeUncertainty == 10000000
EstimateUncertainty == 100000

\* GlobalLocalisation.add_data / CartesianLocalisation.add_data: the landmark
\* it constructs
Landmark(dm, a) ==
    IF dm = GeodeticLandmark
    THEN [identifier    |-> a.identifier,
          latitude_deg  |-> a.pos[1],
          longitude_deg |-> a.pos[2],
          altitude_m    |-> a.pos[3],
          latitude_uncertainty_deg  |->
              IF a.unc = <<>> THEN DefaultLatitudeUncertainty ELSE a.unc[1],
          longitude_uncertainty_deg |->
              IF a.unc = <<>> THEN DefaultLongitudeUncertainty ELSE a.unc[2],
          altitude_uncertainty_m    |->
              IF a.unc = <<>> THEN DefaultAltitudeUncertainty ELSE a.unc[3]]
    ELSE [identifier |-> a.identifier,
          x_m |-> a.pos[1],
          y_m |-> a.pos[2],
          z_m |-> a.pos[3],
          uncertainty_m |->
              IF a.unc = <<>> THEN DefaultUncertainty ELSE a.unc[1]]

\* add_data: the store after self._store.put(landmark); the flag is dropped
add_data(dm, s, a) == put(s, Landmark(dm, a)).storage

\* localise, the for loop: field f of the first n landmarks added up from 0.0
RECURSIVE Accumulate(_, _, _)
Accumulate(landmark_tuple, f, n) ==
    IF n = 0 THEN 0
    ELSE FloatAdd(Accumulate(landmark_tuple, f, n - 1), landmark_tuple[n][f])

\* localise without the three /= statements
Average_undivided(landmark_tuple, f) ==
    Accumulate(landmark_tuple, f, Len(landmark_tuple))

\* localise with = in place of += in the loop
Average_assigned(landmark_tuple, f) ==
    FloatDiv(landmark_tuple[Len(landmark_tuple)][f], Len(landmark_tuple))

\* localise, one coordinate: the loop's sum, then /= len(landmark_tuple)
Average(landmark_tuple, f) ==
    FloatDiv(Accumulate(landmark_tuple, f, Len(landmark_tuple)),
             Len(landmark_tuple))

\* localise that also gives up on a single record
localise_needs_two(dm, s, identifier) ==
    LET landmark_tuple == get(s, identifier)
    IN  IF Len(landmark_tuple) <= 1 THEN <<>>
        ELSE IF dm = GeodeticLandmark
        THEN <<[identifier    |-> identifier,
                latitude_deg  |-> Average(landmark_tuple, "latitude_deg"),
                longitude_deg |-> Average(landmark_tuple, "longitude_deg"),
                altitude_m    |-> Average(landmark_tuple, "altitude_m"),
                latitude_uncertainty_deg  |-> EstimateLatitudeUncertainty,
                longitude_uncertainty_deg |-> EstimateLongitudeUncertainty,
                altitude_uncertainty_m    |-> EstimateAltitudeUncertainty]>>
        ELSE <<[identifier |-> identifier,
                x_m |-> Average(landmark_tuple, "x_m"),
                y_m |-> Average(landmark_tuple, "y_m"),
                z_m |-> Average(landmark_tuple, "z_m"),
                uncertainty_m |-> EstimateUncertainty]>>

\* GlobalLocalisation.localise / CartesianLocalisation.localise: <<>> for None,
\* <<landmark>> for an estimate
localise(dm, s, identifier) ==
    LET landmark_tuple == get(s, identifier)
    IN  IF Len(landmark_tuple) = 0 THEN <<>>
        ELSE IF dm = GeodeticLandmark
        THEN <<[identifier    |-> identifier,
                latitude_deg  |-> Average(landmark_tuple, "latitude_deg"),
                longitude_deg |-> Average(landmark_tuple, "longitude_deg"),
                altitude_m    |-> Average(landmark_tuple, "altitude_m"),
                latitude_uncertainty_deg  |-> EstimateLatitudeUncertainty,
                longitude_uncertainty_deg |-> EstimateLongitudeUncertainty,
                altitude_uncertainty_m    |-> EstimateAltitudeUncertainty]>>
        ELSE <<[identifier |-> identifier,
                x_m |-> Average(landmark_tuple, "x_m"),
                y_m |-> Average(landmark_tuple, "y_m"),
                z_m |-> Average(landmark_tuple, "z_m"),
                uncertainty_m |-> EstimateUncertainty]>>

----------------------------------------------------------------------------
(* examples/wifi_gps.py *)

\* WifiGlobalLocalisation.localise_wifi
localise_wifi(s, ssid, mac) == localise(GeodeticLandmark, s, hash_wifi(ssid, mac))

\* localise_multiple, the for loop: field f of the estimates of the first n
\* networks added up from 0.0, a network without estimate skipped
RECURSIVE AccumulateEstimates(_, _, _, _)
AccumulateEstimates(s, wifi_tuple, f, n) ==
    IF n = 0 THEN 0
    ELSE LET landmark == localise_wifi(s, wifi_tuple[n][1], wifi_tuple[n][2])
             acc == AccumulateEstimates(s, wifi_tuple, f, n - 1)
         IN  IF landmark # <<>> THEN FloatAdd(acc, landmark[1][f]) ELSE acc

\* localise_multiple, the divisor of the three /= statements
Divisor(s, wifi_tuple) == Len(wifi_tuple)

\* WifiGlobalLocalisation.localise_multiple: the exception raised ("" if none)
\* and the returned (latitude_deg, longitude_deg, altitude_m)
localise_multiple(s, wifi_tuple) ==
    IF Divisor(s, wifi_tuple) = 0
    THEN [exc |-> "ZeroDivisionError", value |-> <<>>]
    ELSE [exc   |-> "",
          value |-> [k \in 1..3 |->
              FloatDiv(AccumulateEstimates(s, wifi_tuple,
                           <<"latitude_deg", "longitude_deg", "altitude_m">>[k],
                           Len(wifi_tuple)),
                       Divisor(s, wifi_tuple))]]

----------------------------------------------------------------------------
(* The calls *)

Returned(v) == [exc |-> "", value |-> v]

Raised(e) == [exc |-> e, value |-> <<>>]

\* Python's None
None == <<>>

\* the records a caller of put has at hand for a store of class dm
Landmarks(dm) == {Landmark(dm, a) : a \in AddDataArgs(dm)}

\* a record with the fields of both classes
BothDict ==
    [f \in GeodeticFields \cup CartesianFields |->
        IF f = "identifier" THEN JsonStr("a1") ELSE JsonNum(2)]

GeodeticDict(identifier) ==
    ModelDict(Landmark(GeodeticLandmark,
        [identifier |-> identifier, pos |-> <<2, 4, 6>>, unc |-> <<>>]))

CartesianDict(identifier) ==
    ModelDict(Landmark(CartesianLandmark,
        [identifier |-> identifier, pos |-> <<2, 4, 6>>, unc |-> <<>>]))

\* what the path can hold before the program first saves to it
ExternalFiles ==
    {[kind |-> "missing"],
     [kind |-> "malformed"],
     [kind |-> "array"],
     \* valid for neither class: the record that fails is second or first
     [kind |-> "object",
      value |-> [k \in {"a1"} |-> <<GeodeticDict("a1"), CartesianDict("a1")>>]],
     [kind |-> "object",
      value |-> [k \in {"a1", "b2"} |->
                    IF k = "a1" THEN <<CartesianDict("a1")>>
                    ELSE <<CartesianDict("b2"), GeodeticDict("b2")>>]],
     \* a field of the wrong JSON type
     [kind |-> "object",
      value |-> [k \in {"a1"} |->
                    <<[BothDict EXCEPT !["x_m"] = JsonStr("east"),
                                       !["latitude_deg"] = JsonStr("north")]>>]],
     \* records with more than the fields of either class
     [kind |-> "object", value |-> [k \in {"a1"} |-> <<BothDict, BothDict>>]],
     \* a key that is not its record's identifier, and a key with no record
     [kind |-> "object",
      value |-> [k \in {"b2", "c3"} |->
                    IF k = "b2" THEN <<BothDict>> ELSE <<>>]],
     \* records of exactly the geodetic fields under a key that is not their
     \* identifier
     [kind |-> "object",
      value |-> [k \in {"b2"} |-> <<GeodeticDict("a1"), GeodeticDict("b2")>>]]}

Init ==
    /\ data_model \in DataModels
    /\ storage = EmptyStorage
    /\ file \in ExternalFiles
    /\ op = [name |-> "__init__", args |-> <<data_model>>]
    /\ ret = Returned(None)
    /\ before = EmptyStorage
    /\ puts = <<>>
    /\ pristine = TRUE
    /\ saved = <<>>

\* LandmarkStore(dm): another store is constructed; the file stays
NewStore(dm) ==
    /\ data_model' = dm
    /\ storage' = EmptyStorage
    /\ op' = [name |-> "__init__", args |-> <<dm>>]
    /\ ret' = Returned(None)
    /\ before' = EmptyStorage
    /\ puts' = <<>>
    /\ pristine' = TRUE
    /\ UNCHANGED <<file, saved>>

\* store.put(datum)
Put(datum) ==
    /\ CountRecords(storage, DOMAIN storage) < MaxStored
    /\ storage' = put(storage, datum).storage
    /\ op' = [name |-> "put", args |-> <<datum>>]
    /\ ret' = Returned(put(storage, datum).flag)
    /\ before' = storage
    /\ puts' = IF pristine THEN Append(puts, datum) ELSE puts
    /\ UNCHANGED <<data_model, file, pristine, saved>>

\* store.get(identifier)
Get(identifier) ==
    /\ op' = [name |-> "get", args |-> <<identifier>>]
    /\ ret' = Returned(get(storage, identifier))
    /\ before' = storage
    /\ UNCHANGED <<data_model, storage, file, puts, pristine, saved>>

\* len(store)
Size ==
    /\ op' = [name |-> "__len__", args |-> <<>>]
    /\ ret' = Returned(size(storage))
    /\ before' = storage
    /\ UNCHANGED <<data_model, storage, file, puts, pristine, saved>>

\* store.save(path)
Save ==
    /\ file' = save(storage)
    /\ op' = [name |-> "save", args |-> <<>>]
    /\ ret' = Returned(None)
    /\ before' = storage
    /\ saved' = <<[dm |-> data_model, storage |-> storage]>>
    /\ UNCHANGED <<data_model, storage, puts, pristine>>

\* store.load(path)
Load ==
    LET r == load(data_model, storage, file)
    IN  /\ storage' = r.storage
        /\ op' = [name |-> "load", args |-> <<>>]
        /\ ret' = IF r.exc = "" THEN Returned(r.count) ELSE Raised(r.exc)
        /\ before' = storage
        /\ puts' = IF r.exc = "" THEN <<>> ELSE puts
        /\ pristine' = (pristine /\ r.exc # "")
        /\ UNCHANGED <<data_model, file, saved>>

Next ==
    \/ \E dm \in DataModels : NewStore(dm)
    \/ \E datum \in Landmarks(data_model) : Put(datum)
    \/ \E identifier \in QueryIdentifiers : Get(identifier)
    \/ Size
    \/ Save
    \/ Load

Spec == Init /\ [][Next]_vars

----------------------------------------------------------------------------
(* The localisation engines: GlobalLocalisation (and its subclass           *)
(* WifiGlobalLocalisation) over a GeodeticLandmark store,                   *)
(* CartesianLocalisation over a CartesianLandmark store.                    *)

WifiTuples == UNION {[1..n -> Networks] : n \in 0..MaxNetworks}

EngineInit ==
    /\ data_model \in DataModels
    /\ storage = EmptyStorage
    /\ file = [kind |-> "missing"]
    /\ op = [name |-> "__init__", args |-> <<data_model>>]
    /\ ret = Returned(None)
    /\ before = EmptyStorage
    /\ puts = <<>>
    /\ pristine = TRUE
    /\ saved = <<>>

\* engine.add_data(identifier, ...)
AddData(a) ==
    /\ CountRecords(storage, DOMAIN storage) < MaxAdded
    /\ storage' = add_data(data_model, storage, a)
    /\ op' = [name |-> "add_data", args |-> <<a>>]
    /\ ret' = Returned(None)
    /\ before' = storage
    /\ puts' = Append(puts, Landmark(data_model, a))
    /\ UNCHANGED <<data_model, file, pristine, saved>>

\* engine.get_data(identifier)
GetData(identifier) ==
    /\ op' = [name |-> "get_data", args |-> <<identifier>>]
    /\ ret' = Returned(get(storage, identifier))
    /\ before' = storage
    /\ UNCHANGED <<data_model, storage, file, puts, pristine, saved>>

\* len(engine)
EngineSize ==
    /\ op' = [name |-> "__len__", args |-> <<>>]
    /\ ret' = Returned(size(storage))
    /\ before' = storage
    /\ UNCHANGED <<data_model, storage, file, puts, pristine, saved>>

\* engine.localise(identifier)
Localise(identifier) ==
    /\ op' = [name |-> "localise", args |-> <<identifier>>]
    /\ ret' = Returned(localise(data_model, storage, identifier))
    /\ before' = storage
    /\ UNCHANGED <<data_model, storage, file, puts, pristine, saved>>

\* engine.localise_multiple(wifi_tuple), of WifiGlobalLocalisation only
LocaliseMultiple(wifi_tuple) ==
    /\ data_model = GeodeticLandmark
    /\ op' = [name |-> "localise_multiple", args |-> <<wifi_tuple>>]
    /\ ret' = localise_multiple(storage, wifi_tuple)
    /\ before' = storage
    /\ UNCHANGED <<data_model, storage, file, puts, pristine, saved>>

EngineNext ==
    \/ \E a \in AddDataArgs(data_model) : AddData(a)
    \/ \E identifier \in QueryIdentifiers : GetData(identifier)
    \/ EngineSize
    \/ \E identifier \in QueryIdentifiers : Localise(identifier)
    \/ \E wifi_tuple \in WifiTuples : LocaliseMultiple(wifi_tuple)

EngineSpec == EngineInit /\ [][EngineNext]_vars

----------------------------------------------------------------------------
(* An engine over its whole life: records are added through add_data or put *)
(* into its store, it is queried, and it is saved and loaded (engine.save   *)
(* and engine.load pass through to the store's).                            *)

LifecycleNext ==
    \/ Next
    \/ \E a \in AddDataArgs(data_model) :
          /\ CountRecords(storage, DOMAIN storage) < MaxStored
          /\ AddData(a)
    \/ \E identifier \in QueryIdentifiers : Localise(identifier)

LifecycleSpec == Init /\ [][LifecycleNext]_vars

----------------------------------------------------------------------------
(* Properties of the store *)

\* the records of a sequence that carry an identifier, in the sequence's order
WithIdentifier(records, identifier) ==
    SelectSeq(records, LAMBDA d : d.identifier = identifier)

\* the identifiers of a sequence of records
IdentifiersOf(records) == {records[i].identifier : i \in 1..Len(records)}

\* C1: get never raises, and in a store that has only been put into since its
\* construction it returns the records put under the identifier, in the order
\* they were put: the empty tuple when there are none.
C1_GetReturnsThePuts ==
    op.name = "get" =>
        /\ ret.exc = ""
        /\ pristine => ret.value = WithIdentifier(puts, op.args[1])

\* two different records were put under one identifier, and get returned them
C1_Witness ==
    /\ op.name = "get"
    /\ pristine
    /\ Len(ret.value) = 2
    /\ ret.value[1] # ret.value[2]
    /\ ret.value = <<puts[1], puts[2]>>

\* C2: put returns true exactly when the record's identifier was a key of the
\* store when the call started; in a store only put into since construction,
\* that is exactly when an earlier put carried the identifier.
C2_PutTellsWhetherKnown ==
    op.name = "put" =>
        /\ ret.exc = ""
        /\ ret.value = (op.args[1].identifier \in DOMAIN before)
        /\ pristine =>
              ret.value = (op.args[1].identifier
                              \in IdentifiersOf(SubSeq(puts, 1, Len(puts) - 1)))

\* the second put of an identifier returned true
C2_Witness ==
    /\ op.name = "put"
    /\ pristine
    /\ Len(puts) = 2
    /\ puts[1].identifier = puts[2].identifier
    /\ ret.value = TRUE

\* C6: a file saved by a store loads into a store of the same class (a fresh
\* one in particular) without error and gives it the saved mapping: the same
\* identifiers and under each the same records in the same order; load
\* returns the saved store's size.
C6_SaveLoadRoundTrip ==
    (op.name = "load" /\ saved # <<>> /\ saved[1].dm = data_model) =>
        /\ ret.exc = ""
        /\ storage = saved[1].storage
        /\ ret.value = size(saved[1].storage)

\* a store with two different records under one identifier was saved and
\* loaded into a fresh store
C6_Witness ==
    /\ op.name = "load"
    /\ before = EmptyStorage
    /\ saved # <<>>
    /\ saved[1].dm = data_model
    /\ \E identifier \in DOMAIN storage :
          /\ Len(storage[identifier]) = 2
          /\ storage[identifier][1] # storage[identifier][2]

\* the records of the file under a key, as a store of class dm holds them
FileRecords(dm, f, identifier) ==
    IF identifier \in DOMAIN f.value
    THEN [i \in 1..Len(f.value[identifier]) |->
             [fld \in Fields(dm) |-> f.value[identifier][i][fld].v]]
    ELSE <<>>

\* C7: after a load that succeeded, get returns the file's records for every
\* identifier of the file and the empty tuple for every other, whatever the
\* store held before; load returned the number of identifiers of the file,
\* which is the store's size.
C7_LoadReplaces ==
    (op.name = "load" /\ ret.exc = "") =>
        /\ \A identifier \in QueryIdentifiers \cup DOMAIN before :
              get(storage, identifier) = FileRecords(data_model, file, identifier)
        /\ ret.value = Cardinality(DOMAIN file.value)
        /\ ret.value = size(storage)

\* a load succeeded in a store that held an identifier the file has not
C7_Witness ==
    /\ op.name = "load"
    /\ ret.exc = ""
    /\ storage # EmptyStorage
    /\ \E identifier \in DOMAIN before : identifier \notin DOMAIN file.value

\* the file cannot be loaded into a store of class dm: it is missing, is no
\* JSON, is no JSON object, or holds a record that does not validate
Unloadable(dm, f) ==
    \/ f.kind # "object"
    \/ \E identifier \in DOMAIN f.value :
          \E i \in 1..Len(f.value[identifier]) :
              ~Validates(dm, f.value[identifier][i])

\* C8: a load of a file that cannot be loaded raises, and a load that raises
\* leaves the store's mapping as it was when the call started.
C8_FailedLoadChangesNothing ==
    op.name = "load" =>
        /\ Unloadable(data_model, file) => ret.exc # ""
        /\ ret.exc # "" => storage = before

\* a load into a store that holds records raised on a record that is not the
\* first of its list
C8_Witness ==
    /\ op.name = "load"
    /\ ret.exc = "ValidationError"
    /\ storage # EmptyStorage
    /\ \E identifier \in DOMAIN file.value :
          /\ Len(file.value[identifier]) = 2
          /\ Validates(data_model, file.value[identifier][1])
          /\ ~Validates(data_model, file.value[identifier][2])

\* the file holds a record object whose fields are not exactly those of dm
WrongFieldSet(dm, f) ==
    /\ f.kind = "object"
    /\ \E identifier \in DOMAIN f.value :
          \E i \in 1..Len(f.value[identifier]) :
              DOMAIN f.value[identifier][i] # Fields(dm)

\* C9: load raises whenever a record object of the file has not exactly the
\* fields of the store's class, and whenever the file was saved by a store of
\* the other class.
C9_LoadRejectsOtherSchema ==
    op.name = "load" =>
        /\ WrongFieldSet(data_model, file) => ret.exc # ""
        /\ (saved # <<>> /\ saved[1].dm # data_model) => ret.exc # ""

\* every record of the mapping carries the identifier it is keyed by
KeyedByIdentifier(s) ==
    \A k \in DOMAIN s : \A i \in 1..Len(s[k]) : s[k][i].identifier = k

\* the file is a JSON object whose record objects have exactly the fields of
\* dm, each with a value of its type
MatchesSchema(dm, f) ==
    /\ f.kind = "object"
    /\ \A k \in DOMAIN f.value : \A i \in 1..Len(f.value[k]) :
          /\ DOMAIN f.value[k][i] = Fields(dm)
          /\ \A fld \in Fields(dm) : f.value[k][i][fld].t = FieldType(fld)

\* C12: every record of the store carries the identifier it is keyed by: so
\* it is in a new store, so a put keeps it, and so it is after every
\* successful load of a file that matches the schema of the store's class.
C12_RecordsKeyedByIdentifier ==
    /\ op.name = "__init__" => KeyedByIdentifier(storage)
    /\ (op.name = "put" /\ KeyedByIdentifier(before)) =>
          KeyedByIdentifier(storage)
    /\ (op.name = "load" /\ ret.exc = ""
           /\ MatchesSchema(data_model, file)) => KeyedByIdentifier(storage)

----------------------------------------------------------------------------
(* Properties of the engines *)

\* C3: len of the engine is the number of distinct identifiers among the
\* records added so far, however many records each has; an add_data of a
\* known identifier leaves it alone, one of a new identifier adds one.
C3_SizeCountsIdentifiers ==
    /\ op.name = "__len__" => ret.value = Cardinality(IdentifiersOf(puts))
    /\ op.name = "add_data" =>
          size(storage) = size(before)
              + (IF op.args[1].identifier \in DOMAIN before THEN 0 ELSE 1)

\* three records under two identifiers: len returned 2
C3_Witness ==
    /\ op.name = "__len__"
    /\ Len(puts) = 3
    /\ ret.value = 2

\* field f of the records, as a sequence
FieldValues(records, f) == [i \in 1..Len(records) |-> records[i][f]]

\* the float sum of a sequence, from acc on, first element first
RECURSIVE FoldSum(_, _)
FoldSum(acc, xs) ==
    IF xs = <<>> THEN acc ELSE FoldSum(FloatAdd(acc, Head(xs)), Tail(xs))

\* the sum of a sequence in the integers
RECURSIVE ExactSum(_)
ExactSum(xs) == IF xs = <<>> THEN 0 ELSE Head(xs) + ExactSum(Tail(xs))

Representable(x) == FloatRound(x, 1) = x

\* no float operation of the mean of xs rounds
Unrounded(xs) ==
    /\ \A n \in 1..Len(xs) : Representable(ExactSum(SubSeq(xs, 1, n)))
    /\ ExactSum(xs) % Len(xs) = 0
    /\ Representable(ExactSum(xs) \div Len(xs))

\* x is the mean of xs: their float sum divided by their number, which is the
\* mean in the rationals when no operation rounds
IsMean(x, xs) ==
    /\ x = FloatDiv(FoldSum(0, xs), Len(xs))
    /\ Unrounded(xs) => x * Len(xs) = ExactSum(xs)

Coordinates(dm) ==
    IF dm = GeodeticLandmark
    THEN {"latitude_deg", "longitude_deg", "altitude_m"}
    ELSE {"x_m", "y_m", "z_m"}

\* the uncertainties add_data defaults to
DefaultUncertainties(dm) ==
    IF dm = GeodeticLandmark
    THEN [latitude_uncertainty_deg  |-> DefaultLatitudeUncertainty,
          longitude_uncertainty_deg |-> DefaultLongitudeUncertainty,
          altitude_uncertainty_m    |-> DefaultAltitudeUncertainty]
    ELSE [uncertainty_m |-> DefaultUncertainty]

\* C4: localise of an identifier with N >= 1 records returns a record with
\* that identifier, every coordinate the mean of that coordinate over the N
\* records, and the uncertainties at add_data's defaults whatever the records
\* hold.
C4_LocaliseIsTheMean ==
    (op.name = "localise" /\ get(storage, op.args[1]) # <<>>) =>
        LET records == get(storage, op.args[1])
        IN  /\ ret.exc = ""
            /\ Len(ret.value) = 1
            /\ DOMAIN ret.value[1] = Fields(data_model)
            /\ ret.value[1].identifier = op.args[1]
            /\ \A f \in Coordinates(data_model) :
                  IsMean(ret.value[1][f], FieldValues(records, f))
            /\ \A f \in DOMAIN DefaultUncertainties(data_model) :
                  ret.value[1][f] = DefaultUncertainties(data_model)[f]

\* localise over two records, one of them with uncertainties of its own and
\* a coordinate whose mean needs no rounding
C4_Witness ==
    /\ op.name = "localise"
    /\ Len(get(storage, op.args[1])) = 2
    /\ \E i \in 1..2 : \E f \in DOMAIN DefaultUncertainties(data_model) :
          get(storage, op.args[1])[i][f] # DefaultUncertainties(data_model)[f]
    /\ \E f \in Coordinates(data_model) :
          /\ Unrounded(FieldValues(get(storage, op.args[1]), f))
          /\ ret.value[1][f] = 3

\* C5: localise never raises, and returns None exactly when the store holds
\* no record for the identifier.
C5_LocaliseAbsentIffNoRecord ==
    op.name = "localise" =>
        /\ ret.exc = ""
        /\ (ret.value = None) = (get(storage, op.args[1]) = <<>>)

\* localise of an identifier without records, in a store that has others
C5_Witness ==
    /\ op.name = "localise"
    /\ storage # EmptyStorage
    /\ op.args[1] \notin DOMAIN storage
    /\ ret.value = None

\* the estimates localise_wifi gives for the networks of wifi_tuple, those
\* without estimate left out
Resolved(s, wifi_tuple) ==
    LET estimates == [i \in 1..Len(wifi_tuple) |->
                         localise_wifi(s, wifi_tuple[i][1], wifi_tuple[i][2])]
        present == SelectSeq(estimates, LAMBDA e : e # <<>>)
    IN  [i \in 1..Len(present) |-> present[i][1]]

\* C10: localise_multiple of a tuple of which at least one network resolves
\* returns, per coordinate, the sum of the resolved estimates divided by the
\* number of resolved networks.
C10_MeanOverResolved ==
    (op.name = "localise_multiple" /\ Resolved(storage, op.args[1]) # <<>>) =>
        LET resolved == Resolved(storage, op.args[1])
        IN  /\ ret.exc = ""
            /\ ret.value =
                  <<FloatDiv(FoldSum(0, FieldValues(resolved, "latitude_deg")),
                             Len(resolved)),
                    FloatDiv(FoldSum(0, FieldValues(resolved, "longitude_deg")),
                             Len(resolved)),
                    FloatDiv(FoldSum(0, FieldValues(resolved, "altitude_m")),
                             Len(resolved))>>

\* C11: no localise and no localise_multiple divides by zero, whatever the
\* store holds and whatever it is asked: an empty wifi_tuple and a wifi_tuple
\* of which no network resolves included.
C11_NoDivisionByZero ==
    op.name \in {"localise", "localise_multiple"} =>
        ret.exc # "ZeroDivisionError"

\* the orders of n things
Orders(n) ==
    {p \in [1..n -> 1..n] : \A i, j \in 1..n : p[i] = p[j] => i = j}

\* the store had the records of the identifier been added in the order p
Reordered(s, identifier, p) ==
    [s EXCEPT ![identifier] = [i \in 1..Len(@) |-> @[p[i]]]]

\* no addition of the float sum of xs rounds
ExactlySummed(xs) ==
    \A n \in 1..Len(xs) : Representable(ExactSum(SubSeq(xs, 1, n)))

\* C14 as stated: localise of an identifier returns the same estimate in
\* whatever order the records of the identifier were added.
C14_OrderIndependent ==
    (op.name = "localise" /\ op.args[1] \in DOMAIN storage) =>
        \A p \in Orders(Len(storage[op.args[1]])) :
            localise(data_model, Reordered(storage, op.args[1], p), op.args[1])
                = ret.value

\* C14 as amended: in whatever order the records of the identifier were
\* added, localise returns an estimate with the same identifier and
\* uncertainties, and the same value of every coordinate whose float sum
\* rounds in neither order.
C14_OrderIndependentUnlessRounded ==
    (op.name = "localise" /\ get(storage, op.args[1]) # <<>>) =>
        \A p \in Orders(Len(storage[op.args[1]])) :
            LET reordered == Reordered(storage, op.args[1], p)
                other == localise(data_model, reordered, op.args[1])
            IN  /\ Len(other) = 1
                /\ \A f \in Fields(data_model) \ Coordinates(data_model) :
                      other[1][f] = ret.value[1][f]
                /\ \A f \in Coordinates(data_model) :
                      (/\ ExactlySummed(FieldValues(storage[op.args[1]], f))
                       /\ ExactlySummed(FieldValues(reordered[op.args[1]], f)))
                      => other[1][f] = ret.value[1][f]

\* localise over three records with a coordinate that takes three values and
\* whose sum rounds in no order
C14_Witness ==
    /\ op.name = "localise"
    /\ Len(get(storage, op.args[1])) = 3
    /\ \E f \in Coordinates(data_model) :
          /\ Cardinality({storage[op.args[1]][i][f] : i \in 1..3}) = 3
          /\ \A p \in Orders(3) :
                ExactlySummed(FieldValues(
                    Reordered(storage, op.args[1], p)[op.args[1]], f))

----------------------------------------------------------------------------
(* Properties of an engine over its whole life *)

\* the record a put or an add_data call stores
StoredBy(call) ==
    IF call.name = "put" THEN call.args[1]
    ELSE Landmark(data_model, call.args[1])

\* C13: a put or add_data leaves under the record's identifier the sequence
\* that was there followed by the record, leaves every other identifier's
\* sequence as it was and drops no identifier; get, localise, len and save
\* leave the whole mapping as it was; so while no load has succeeded the
\* store holds under every identifier exactly the records added under it, in
\* the order they were added.
C13_AppendOnly ==
    /\ op.name \in {"put", "add_data"} =>
          LET datum == StoredBy(op)
          IN  /\ DOMAIN storage = DOMAIN before \cup {datum.identifier}
              /\ storage[datum.identifier] =
                    Append(get(before, datum.identifier), datum)
              /\ \A k \in DOMAIN before \ {datum.identifier} :
                    storage[k] = before[k]
    /\ op.name \in {"get", "localise", "__len__", "save"} => storage = before
    /\ pristine =>
          /\ DOMAIN storage = IdentifiersOf(puts)
          /\ \A k \in DOMAIN storage : storage[k] = WithIdentifier(puts, k)

\* an add_data of a second, different record under an identifier
C13_Witness ==
    /\ op.name = "add_data"
    /\ Len(get(before, StoredBy(op).identifier)) = 1
    /\ before[StoredBy(op).identifier][1] # StoredBy(op)
    /\ storage[StoredBy(op).identifier] =
          <<before[StoredBy(op).identifier][1], StoredBy(op)>>

====
